---- MODULE Spec2Model ----
(***************************************************************************)
(* Low-latency TTS clients of inworld-api-examples (JavaScript):           *)
(*   websocketTts      src/js/example_tts_low_latency_ws.js                *)
(*   httpStreamingTts  src/js/example_tts_low_latency_http.js              *)
(*   synthesizeSpeechStream, saveStreamingAudioToFile                      *)
(*                     src/js/example_tts_stream.js                        *)
(* Each session is a single-threaded state machine driven by network       *)
(* events.  Strings are sequences of one-character strings.  Times are     *)
(* integer clock readings (Date.now()); the division by 1000 that turns a  *)
(* difference into seconds is a monotone rescaling and is left out.        *)
(***************************************************************************)
EXTENDS Integers, Sequences, FiniteSets, TLC

\* ------------------------------------------------------------ bounds ----
\* inbound 'message' and 'error' events delivered to one websocket session
MaxEvents == 5
\* largest reading of the clock
MaxClock == 2
\* lines in one HTTP response body
MaxLines == 3
\* characters in a text given to splitSentences
MaxTextLen == 5
\* events the connection has produced and the event loop has not dispatched
MaxPending == 1
\* 'message' and 'error' events of a session whose events are queued
MaxDeliveries == 3

\* JavaScript null (ttfb, startTime before they are assigned)
NULL == -1

VARIABLES
    \* ---- websocketTts: closure variables and the socket
    text,             \* the text argument
    sock,             \* "connecting" | "open" | "closed" ('close' delivered)
    contextReady, startTime, ttfb, totalAudioBytes, resolved,
    result,           \* what the promise settled with
    closeCalls,       \* calls of ws.close()
    resolveCalls,     \* calls of resolve()
    sent,             \* messages handed to ws.send(), in order
    nEvents,          \* 'message' and 'error' events handled so far
    \* ---- websocketTts: history of the inbound traffic
    completionSeen,   \* a completion signal arrived after the acknowledgment
    abortFirst,       \* 'close' or 'error' was handled before any completion signal
    rcvdAudio,        \* decoded bytes of all audio chunks received until resolved
    streamAudio,      \* decoded bytes of audio chunks received in Streaming
    malformedSeen,    \* a frame that is not JSON was handled
    \* ---- websocketTts: the event loop
    pending,          \* events emitted by the connection, not yet dispatched
    \* ---- the clock
    now,
    \* ---- httpStreamingTts
    hpc,              \* position in the function body
    warmupOk, warmupBody,
    respOk, body,     \* the timed response: status and the bytes not yet read
    buffer,           \* the carry-over text
    lines,            \* complete lines of the current chunk not yet processed
    hStart, hTtfb, hTotal,
    hResult,          \* the value returned
    bodyAll,          \* history: the whole response body
    fetchCalls,       \* calls of fetch() so far
    rejectedAt,       \* history: where a transport call rejected, or "none"
    \* ---- synthesizeSpeechStream (it reads respOk, body, buffer, lines too)
    gpc,              \* position in the generator body
    chunkCount, totalAudioSize,
    yielded,          \* lengths of the buffers yielded so far, in order
    \* ---- saveStreamingAudioToFile, consuming the generator
    audioData,        \* the buffers pushed so far
    written,          \* fs.writeFileSync was called
    fileData,         \* the bytes it wrote
    \* ---- one call of splitSentences
    spc,              \* "call" | "done"
    sIn,              \* the argument
    sOut              \* the array returned

wsVars == <<text, sock, contextReady, startTime, ttfb, totalAudioBytes, resolved,
            result, closeCalls, resolveCalls, sent, nEvents,
            completionSeen, abortFirst, rcvdAudio, streamAudio, malformedSeen,
            pending>>
httpVars == <<hpc, warmupOk, warmupBody, respOk, body, buffer, lines, hStart, hTtfb,
              hTotal, hResult, bodyAll, fetchCalls, rejectedAt>>
genVars == <<gpc, chunkCount, totalAudioSize, yielded, audioData, written, fileData>>
splitVars == <<spc, sIn, sOut>>
vars == <<wsVars, httpVars, genVars, now, splitVars>>

\* ------------------------------------------------------ characters ----
\* . ! ? and the CJK, Devanagari, Arabic and Urdu marks of the regex
Terminators == {".", "!", "?", "U+3002", "U+FF01", "U+FF1F", "U+0964", "U+061F", "U+06D4"}
\* what \s and String.prototype.trim treat as white space
Whitespace == {" ", "\t", "\n", "\r"}

RECURSIVE trimStart(_)
trimStart(s) ==
    IF s # <<>> /\ Head(s) \in Whitespace THEN trimStart(Tail(s)) ELSE s

RECURSIVE trimEnd(_)
trimEnd(s) ==
    IF s # <<>> /\ s[Len(s)] \in Whitespace
    THEN trimEnd(SubSeq(s, 1, Len(s) - 1)) ELSE s

trim(s) == trimEnd(trimStart(s))

\* the first offset >= i (0-based) whose character is not in S, or Len(s)
RECURSIVE skipWhile(_, _, _)
skipWhile(s, i, S) ==
    IF i < Len(s) /\ s[i + 1] \in S THEN skipWhile(s, i + 1, S) ELSE i

\* the first offset >= i whose character is in S, or Len(s)
RECURSIVE skipUntil(_, _, _)
skipUntil(s, i, S) ==
    IF i < Len(s) /\ s[i + 1] \notin S THEN skipUntil(s, i + 1, S) ELSE i

\* the regex with a single terminator, [T] in place of [T]+
regexExecOneTerminator(s, lastIndex) ==
    LET t == skipUntil(s, lastIndex, Terminators) IN
    IF t >= Len(s) THEN NULL
    ELSE skipWhile(s, t + 1, Whitespace)

\* regex.exec(text) of /[^T]*[T]+[\s]*/g with regex.lastIndex = lastIndex:
\* the new lastIndex (the match is text.slice(lastIndex, new)), or NULL
regexExec(s, lastIndex) ==
    LET t == skipUntil(s, lastIndex, Terminators) IN
    IF t >= Len(s) THEN NULL
    ELSE skipWhile(s, skipWhile(s, t, Terminators), Whitespace)

\* the loop with the remaining text pushed as it is, untrimmed and unchecked
RECURSIVE splitLoopRawRemaining(_, _, _)
splitLoopRawRemaining(s, lastIndex, sentences) ==
    LET e == regexExec(s, lastIndex) IN
    IF e = NULL
    THEN Append(sentences, SubSeq(s, lastIndex + 1, Len(s)))
    ELSE LET m == trim(SubSeq(s, lastIndex + 1, e)) IN
         splitLoopRawRemaining(s, e, IF m # <<>> THEN Append(sentences, m) ELSE sentences)

RECURSIVE splitLoop(_, _, _)
splitLoop(s, lastIndex, sentences) ==
    LET e == regexExec(s, lastIndex) IN
    IF e = NULL
    THEN LET remaining == trim(SubSeq(s, lastIndex + 1, Len(s))) IN
         IF remaining # <<>> THEN Append(sentences, remaining) ELSE sentences
    ELSE LET m == trim(SubSeq(s, lastIndex + 1, e)) IN
         splitLoop(s, e, IF m # <<>> THEN Append(sentences, m) ELSE sentences)

splitSentences(s) == splitLoop(s, 0, <<>>)

\* characters of the texts splitSentences is called with: a letter, a
\* blank, two Latin terminators and the CJK full stop
SplitChars == {"a", " ", ".", "?", "U+3002"}

SplitTexts == UNION { [1..n -> SplitChars] : n \in 0..MaxTextLen }

InitSplit == spc = "call" /\ sIn \in SplitTexts /\ sOut = <<>>

SplitIdle == spc = "idle" /\ sIn = <<>> /\ sOut = <<>>

\* Buffer.from(b64, 'base64').length for n unpadded base64 characters
base64Length(n) == (n * 3) \div 4

\* ------------------------------------------------------ websocketTts ----
\* texts a session is called with
WsTexts == { <<>>, <<"a", ".">>, <<"a", ".", " ", "b", "?", "!">> }

\* lengths, in base64 characters, of an audioContent string (0: "" or absent)
AudioContents == {0, 2, 4}

\* An inbound frame: json = FALSE is a frame JSON.parse rejects; otherwise the
\* fields the handler reads.  result = FALSE is an absent (or null) result,
\* audioChunk = FALSE an absent audioChunk.
Envelopes ==
    { [json |-> FALSE, error |-> FALSE, done |-> FALSE, result |-> FALSE,
       contextCreated |-> FALSE, contextClosed |-> FALSE,
       audioChunk |-> FALSE, audioContent |-> 0] }
    \cup
    { e \in [json : {TRUE}, error : BOOLEAN, done : BOOLEAN, result : BOOLEAN,
             contextCreated : BOOLEAN, contextClosed : BOOLEAN,
             audioChunk : BOOLEAN, audioContent : AudioContents] :
        /\ ~e.result => ~e.contextCreated /\ ~e.contextClosed /\ ~e.audioChunk
        /\ ~e.audioChunk => e.audioContent = 0 }

Pending == [kind |-> "pending", ttfb |-> NULL, totalTime |-> NULL, audioBytes |-> NULL]
Null == [kind |-> "null", ttfb |-> NULL, totalTime |-> NULL, audioBytes |-> NULL]
Metrics(t, total, bytes) ==
    [kind |-> "metrics", ttfb |-> t, totalTime |-> total, audioBytes |-> bytes]

\* const contextId
contextId == "ctx-latency-test"

\* the outbound messages: which of create / send_text / close_context the
\* object holds, its context_id, and for send_text its text and flush_context
CreateMsg ==
    [kind |-> "create", context_id |-> contextId, text |-> <<>>, flush_context |-> FALSE]
SendTextMsg(s) ==
    [kind |-> "send_text", context_id |-> contextId, text |-> s, flush_context |-> TRUE]
CloseContextMsg ==
    [kind |-> "close_context", context_id |-> contextId, text |-> <<>>, flush_context |-> FALSE]

InitWs ==
    /\ text \in WsTexts
    /\ sock = "connecting"
    /\ contextReady = FALSE
    /\ startTime = NULL
    /\ ttfb = NULL
    /\ totalAudioBytes = 0
    /\ resolved = FALSE
    /\ result = Pending
    /\ closeCalls = 0
    /\ resolveCalls = 0
    /\ sent = <<>>
    /\ nEvents = 0
    /\ completionSeen = FALSE
    /\ abortFirst = FALSE
    /\ rcvdAudio = 0
    /\ streamAudio = 0
    /\ malformedSeen = FALSE
    /\ pending = <<>>

\* finish(result) without its guard
finishUnguarded(r) ==
    /\ resolved' = TRUE
    /\ closeCalls' = closeCalls + 1
    /\ resolveCalls' = resolveCalls + 1
    /\ result' = IF result.kind = "pending" THEN r ELSE result

\* finish(result): the first call closes the socket and settles the promise
finish(r) ==
    IF ~resolved
    THEN /\ resolved' = TRUE
         /\ closeCalls' = closeCalls + 1
         /\ resolveCalls' = resolveCalls + 1
         /\ result' = IF result.kind = "pending" THEN r ELSE result
    ELSE UNCHANGED <<resolved, closeCalls, resolveCalls, result>>

noFinish == UNCHANGED <<resolved, closeCalls, resolveCalls, result>>

\* the messages the acknowledgment branch sends
\* splitSentences over the texts a session is called with, computed once
sentencesOf == [t \in WsTexts |-> splitSentences(t)]

textMessages == [i \in 1..Len(sentencesOf[text]) |-> SendTextMsg(sentencesOf[text][i])]

\* a completion signal, by the shape of the envelope
IsCompletion(m) == m.json /\ ((m.result /\ m.contextClosed) \/ (~m.result /\ m.done))
\* the context-created acknowledgment
IsAck(m) == m.json /\ m.result /\ m.contextCreated
\* an audio chunk with non-empty content
IsAudio(m) == m.json /\ m.result /\ m.audioChunk /\ m.audioContent > 0

codeVars == <<contextReady, startTime, ttfb, totalAudioBytes, sent>>

\* a frame the handler drops: nothing changes
ignore == noFinish /\ UNCHANGED codeVars

\* the acknowledgment branch closing the context only after some sentence
onContextCreatedCloseIfSent ==
    /\ contextReady' = TRUE
    /\ startTime' = now
    /\ sent' = sent \o textMessages
                    \o (IF textMessages # <<>> THEN <<CloseContextMsg>> ELSE <<>>)
    /\ noFinish
    /\ UNCHANGED <<ttfb, totalAudioBytes>>

\* the acknowledgment branch: start the clock, send every sentence, close the context
onContextCreated ==
    /\ contextReady' = TRUE
    /\ startTime' = now
    /\ sent' = sent \o textMessages \o <<CloseContextMsg>>
    /\ noFinish
    /\ UNCHANGED <<ttfb, totalAudioBytes>>

\* completion branches that measure from the clock's origin, not the epoch
completeFromOrigin ==
    /\ finish(Metrics(ttfb, now, totalAudioBytes))
    /\ UNCHANGED codeVars

\* both completion branches: the metrics as accumulated
complete ==
    /\ finish(Metrics(ttfb, now - startTime, totalAudioBytes))
    /\ UNCHANGED codeVars

\* the audio branch with = in place of +=
onAudioChunkOverwrite(m) ==
    IF m.audioContent > 0
    THEN /\ ttfb' = IF ttfb = NULL THEN now - startTime ELSE ttfb
         /\ totalAudioBytes' = base64Length(m.audioContent)
         /\ noFinish
         /\ UNCHANGED <<contextReady, startTime, sent>>
    ELSE ignore

\* the audio branch: ttfb on the first chunk, the decoded length added
onAudioChunk(m) ==
    IF m.audioContent > 0
    THEN /\ ttfb' = IF ttfb = NULL THEN now - startTime ELSE ttfb
         /\ totalAudioBytes' = totalAudioBytes + base64Length(m.audioContent)
         /\ noFinish
         /\ UNCHANGED <<contextReady, startTime, sent>>
    ELSE ignore

\* the handler once contextReady is set
streaming(m) ==
    IF ~m.result
    THEN IF m.done THEN complete ELSE ignore
    ELSE IF m.contextClosed
    THEN complete
    ELSE IF m.audioChunk
    THEN onAudioChunk(m)
    ELSE ignore

\* the waiting branch without its return
awaitContextFallThrough(m) ==
    IF m.result /\ m.contextCreated THEN onContextCreated ELSE streaming(m)

\* the handler while contextReady is not set
awaitContext(m) ==
    IF m.result /\ m.contextCreated THEN onContextCreated ELSE ignore

\* a handler that only logs an error envelope
onMessageErrorLogged(m) ==
    IF ~m.json
    THEN ignore
    ELSE IF ~contextReady
    THEN awaitContext(m)
    ELSE streaming(m)

\* a handler whose catch fails the session
onMessageCatchFails(m) ==
    IF ~m.json
    THEN finish(Null) /\ UNCHANGED codeVars
    ELSE IF m.error
    THEN finish(Null) /\ UNCHANGED codeVars
    ELSE IF ~contextReady
    THEN awaitContext(m)
    ELSE streaming(m)

\* the body of ws.on('message')
onMessage(m) ==
    IF ~m.json
    THEN ignore
    ELSE IF m.error
    THEN finish(Null) /\ UNCHANGED codeVars
    ELSE IF ~contextReady
    THEN awaitContext(m)
    ELSE streaming(m)

\* a 'close' handler that reports what was measured so far
onClosePartial == finish(Metrics(ttfb, now - startTime, totalAudioBytes))

\* ws.on('close') and ws.on('error')
onClose == finish(Null)

\* an 'error' handler that only logs
onErrorLogged == noFinish

onError == finish(Null)

\* the traffic history, kept beside the handler
recordMessage(m) ==
    /\ completionSeen' = (completionSeen \/ (contextReady /\ IsCompletion(m)))
    /\ rcvdAudio' = IF ~resolved /\ IsAudio(m)
                    THEN rcvdAudio + base64Length(m.audioContent) ELSE rcvdAudio
    /\ streamAudio' = IF ~resolved /\ contextReady /\ IsAudio(m)
                         /\ ~m.error /\ ~m.contextClosed
                      THEN streamAudio + base64Length(m.audioContent) ELSE streamAudio
    /\ malformedSeen' = (malformedSeen \/ ~m.json)
    /\ UNCHANGED abortFirst

recordAbort ==
    /\ abortFirst' = (abortFirst \/ ~completionSeen)
    /\ UNCHANGED <<completionSeen, rcvdAudio, streamAudio, malformedSeen>>

noRecord == UNCHANGED <<completionSeen, abortFirst, rcvdAudio, streamAudio, malformedSeen>>

Open ==
    /\ sock = "connecting"
    /\ sock' = "open"
    /\ sent' = Append(sent, CreateMsg)
    /\ noFinish /\ noRecord
    /\ UNCHANGED <<text, contextReady, startTime, ttfb, totalAudioBytes, nEvents, pending>>
    /\ UNCHANGED <<httpVars, genVars, now, splitVars>>

\* the 'message' handler runs for the frame m
handleMessage(m) ==
    /\ sock = "open"
    /\ nEvents < MaxEvents
    /\ nEvents' = nEvents + 1
    /\ onMessage(m)
    /\ recordMessage(m)
    /\ UNCHANGED <<text, sock>>
    /\ UNCHANGED <<httpVars, genVars, now, splitVars>>

\* the 'error' handler runs
handleError ==
    /\ sock \in {"connecting", "open"}
    /\ nEvents < MaxEvents
    /\ nEvents' = nEvents + 1
    /\ onError
    /\ recordAbort
    /\ UNCHANGED <<text, sock, contextReady, startTime, ttfb, totalAudioBytes, sent>>
    /\ UNCHANGED <<httpVars, genVars, now, splitVars>>

\* the 'close' handler runs
handleClose ==
    /\ sock \in {"connecting", "open"}
    /\ sock' = "closed"
    /\ onClose
    /\ recordAbort
    /\ UNCHANGED <<text, contextReady, startTime, ttfb, totalAudioBytes, sent, nEvents>>
    /\ UNCHANGED <<httpVars, genVars, now, splitVars>>

\* an event emitted and dispatched in one step
Message(m) == handleMessage(m) /\ UNCHANGED pending

Error == handleError /\ UNCHANGED pending

Close == handleClose /\ UNCHANGED pending

\* ---- events queued by the event loop
\* what the connection can emit
Events ==
    [kind : {"message"}, m : Envelopes] \cup { [kind |-> "error"], [kind |-> "close"] }

\* 'message' and 'error' events among the pending ones
counted(q) == Len(SelectSeq(q, LAMBDA e : e.kind # "close"))

\* the connection has not ended: 'close' is the last event it emits
connectionLive ==
    /\ sock \in {"connecting", "open"}
    /\ \A i \in 1..Len(pending) : pending[i].kind # "close"

\* the connection emits the event e, which waits for the event loop; frames
\* come only once the handshake is done
Arrive(e) ==
    /\ connectionLive
    /\ Len(pending) < MaxPending
    /\ e.kind = "message" => sock = "open"
    /\ e.kind # "close" => nEvents + counted(pending) < MaxDeliveries
    /\ pending' = Append(pending, e)
    /\ UNCHANGED <<text, sock, contextReady, startTime, ttfb, totalAudioBytes, resolved,
                   result, closeCalls, resolveCalls, sent, nEvents>>
    /\ noRecord
    /\ UNCHANGED <<httpVars, genVars, now, splitVars>>

\* the event loop dispatches the oldest pending event to its handler
Deliver ==
    /\ pending # <<>>
    /\ pending' = Tail(pending)
    /\ CASE Head(pending).kind = "message" -> handleMessage(Head(pending).m)
         [] Head(pending).kind = "error" -> handleError
         [] Head(pending).kind = "close" -> handleClose

\* time passes between two events of a timed session (the generator reads the
\* clock only to log)
Tick ==
    /\ gpc = "idle"
    /\ now < MaxClock
    /\ now' = now + 1
    /\ UNCHANGED <<wsVars, httpVars, genVars, splitVars>>

\* ---------------------------------------------------- httpStreamingTts ----
\* A response body is text over the characters { A } x and newline.
\* JSON.parse accepts a line of the form {A...A} (white space around it
\* allowed): the record {"result":{"audioContent":"A...A"}}, the A's being its
\* base64 characters, and {} a record with no audio content.  Every other line
\* is a SyntaxError.
HttpLines ==
    { <<"{", "A", "A", "}">>,
      <<"{", "A", "A", "A", "}">>,
      <<"{", "}">>,
      <<"x">> }

RECURSIVE joinLines(_, _)
joinLines(ls, lastTerminated) ==
    IF ls = <<>> THEN <<>>
    ELSE IF Len(ls) = 1
    THEN ls[1] \o (IF lastTerminated THEN <<"\n">> ELSE <<>>)
    ELSE ls[1] \o <<"\n">> \o joinLines(Tail(ls), lastTerminated)

\* the bodies a server may stream: up to MaxLines lines, the last one with or
\* without its newline
Bodies ==
    { joinLines(ls, t) :
        ls \in UNION { [1..n -> HttpLines] : n \in 0..MaxLines }, t \in BOOLEAN }

\* what a warmup response may hold
WarmupBodies == { <<>>, <<"{", "A", "A", "A", "}", "\n">> }

\* s.split('\n')
RECURSIVE splitNewline(_, _, _)
splitNewline(s, cur, acc) ==
    IF s = <<>> THEN Append(acc, cur)
    ELSE IF Head(s) = "\n"
    THEN splitNewline(Tail(s), <<>>, Append(acc, cur))
    ELSE splitNewline(Tail(s), Append(cur, Head(s)), acc)

split(s) == splitNewline(s, <<>>, <<>>)

\* JSON.parse(line) followed by result.audioContent: the number of base64
\* characters of the audio content (0: none), or NULL for a SyntaxError
audioContentOf(line) ==
    LET t == trim(line) IN
    IF Len(t) >= 2 /\ t[1] = "{" /\ t[Len(t)] = "}"
       /\ \A i \in 2..(Len(t) - 1) : t[i] = "A"
    THEN Len(t) - 2
    ELSE NULL

\* the newline-terminated lines of a body, and all its segments
completeLines(b) == SubSeq(split(b), 1, Len(split(b)) - 1)

\* a line that parses to a record with non-empty audio content
IsAudioLine(line) ==
    trim(line) # <<>> /\ audioContentOf(line) # NULL /\ audioContentOf(line) > 0

audioLines(ls) == SelectSeq(ls, IsAudioLine)

\* the decoded bytes of the audio-bearing lines among ls
RECURSIVE sumBytes(_)
sumBytes(ls) ==
    IF ls = <<>> THEN 0
    ELSE (IF IsAudioLine(Head(ls)) THEN base64Length(audioContentOf(Head(ls))) ELSE 0)
         + sumBytes(Tail(ls))

InitHttp ==
    /\ hpc = "warmupFetch"
    /\ warmupOk \in BOOLEAN
    /\ warmupBody \in WarmupBodies
    /\ respOk \in BOOLEAN
    /\ bodyAll \in Bodies
    /\ body = bodyAll
    /\ buffer = <<>>
    /\ lines = <<>>
    /\ hStart = NULL
    /\ hTtfb = NULL
    /\ hTotal = 0
    /\ hResult = Pending
    /\ fetchCalls = 1
    /\ rejectedAt = "none"

HttpIdle ==
    /\ hpc = "idle"
    /\ warmupOk = TRUE /\ warmupBody = <<>>
    /\ respOk = TRUE /\ body = <<>> /\ bodyAll = <<>>
    /\ buffer = <<>> /\ lines = <<>>
    /\ hStart = NULL /\ hTtfb = NULL /\ hTotal = 0
    /\ hResult = Pending
    /\ fetchCalls = 0 /\ rejectedAt = "none"

\* a warmup whose clock starts when its fetch resolves
WarmupFetchStartsClock ==
    /\ hpc = "warmupFetch"
    /\ hpc' = "warmupDrain"
    /\ hStart' = now
    /\ UNCHANGED <<warmupOk, warmupBody, respOk, body, buffer, lines,
                   hTtfb, hTotal, hResult, bodyAll, fetchCalls, rejectedAt>>
    /\ UNCHANGED <<wsVars, genVars, now, splitVars>>

\* the warmup fetch resolves, whatever its status
WarmupFetch ==
    /\ hpc = "warmupFetch"
    /\ hpc' = "warmupDrain"
    /\ UNCHANGED <<warmupOk, warmupBody, respOk, body, buffer, lines, hStart,
                   hTtfb, hTotal, hResult, bodyAll, fetchCalls, rejectedAt>>
    /\ UNCHANGED <<wsVars, genVars, now, splitVars>>

\* accumulators that start from what the warmup response held
startTimedCountingWarmup ==
    /\ hStart' = now
    /\ hTtfb' = IF audioLines(completeLines(warmupBody)) # <<>> THEN 0 ELSE NULL
    /\ hTotal' = sumBytes(completeLines(warmupBody))

\* lines 79-81: the clock starts and the accumulators are initialised
startTimed ==
    /\ hStart' = now
    /\ hTtfb' = NULL
    /\ hTotal' = 0

\* warmupResponse.arrayBuffer() resolves: the body is dropped, the clock
\* starts and the timed request is issued
WarmupDrain ==
    /\ hpc = "warmupDrain"
    /\ startTimed
    /\ fetchCalls' = fetchCalls + 1
    /\ hpc' = "timedFetch"
    /\ UNCHANGED <<warmupOk, warmupBody, respOk, body, buffer, lines, hResult, bodyAll,
                   rejectedAt>>
    /\ UNCHANGED <<wsVars, genVars, now, splitVars>>

\* the timed fetch resolves: a non-success status returns null
TimedFetch ==
    /\ hpc = "timedFetch"
    /\ IF ~respOk
       THEN hpc' = "done" /\ hResult' = Null
       ELSE hpc' = "read" /\ hResult' = hResult
    /\ UNCHANGED <<warmupOk, warmupBody, respOk, body, buffer, lines, hStart,
                   hTtfb, hTotal, bodyAll, fetchCalls, rejectedAt>>
    /\ UNCHANGED <<wsVars, genVars, now, splitVars>>

\* reader.read() yields the next k characters: lines 106-108
ReadChunk ==
    /\ hpc = "read"
    /\ body # <<>>
    /\ \E k \in 1..Len(body) :
         LET parts == split(buffer \o SubSeq(body, 1, k)) IN
         /\ body' = SubSeq(body, k + 1, Len(body))
         /\ lines' = SubSeq(parts, 1, Len(parts) - 1)
         /\ buffer' = parts[Len(parts)]
         /\ hpc' = IF Len(parts) > 1 THEN "line" ELSE "read"
    /\ UNCHANGED <<warmupOk, warmupBody, respOk, hStart, hTtfb, hTotal, hResult, bodyAll,
                   fetchCalls, rejectedAt>>
    /\ UNCHANGED <<wsVars, genVars, now, splitVars>>

\* a loop body that gives up on the response at a line it cannot parse
processLineAbortOnBad(line) ==
    IF trim(line) # <<>> /\ audioContentOf(line) = NULL
    THEN /\ hTtfb' = NULL /\ hTotal' = 0
    ELSE IF trim(line) # <<>> /\ audioContentOf(line) > 0
    THEN /\ hTtfb' = IF hTtfb = NULL THEN now - hStart ELSE hTtfb
         /\ hTotal' = hTotal + base64Length(audioContentOf(line))
    ELSE UNCHANGED <<hTtfb, hTotal>>

\* a loop body that takes the time of the latest audio line
processLineLatest(line) ==
    IF trim(line) # <<>> /\ audioContentOf(line) # NULL /\ audioContentOf(line) > 0
    THEN /\ hTtfb' = now - hStart
         /\ hTotal' = hTotal + base64Length(audioContentOf(line))
    ELSE UNCHANGED <<hTtfb, hTotal>>

\* lines 111-125: one line of the for loop
processLine(line) ==
    IF trim(line) # <<>> /\ audioContentOf(line) # NULL /\ audioContentOf(line) > 0
    THEN /\ hTtfb' = IF hTtfb = NULL THEN now - hStart ELSE hTtfb
         /\ hTotal' = hTotal + base64Length(audioContentOf(line))
    ELSE UNCHANGED <<hTtfb, hTotal>>

NextLine ==
    /\ hpc = "line"
    /\ processLine(Head(lines))
    /\ lines' = Tail(lines)
    /\ hpc' = IF Tail(lines) = <<>> THEN "read" ELSE "line"
    /\ UNCHANGED <<warmupOk, warmupBody, respOk, body, buffer, hStart, hResult, bodyAll,
                   fetchCalls, rejectedAt>>
    /\ UNCHANGED <<wsVars, genVars, now, splitVars>>

\* reader.read() reports done: lines 104, 129-130
EndOfStream ==
    /\ hpc = "read"
    /\ body = <<>>
    /\ hpc' = "done"
    /\ hResult' = Metrics(hTtfb, now - hStart, hTotal)
    /\ UNCHANGED <<warmupOk, warmupBody, respOk, body, buffer, lines, hStart,
                   hTtfb, hTotal, bodyAll, fetchCalls, rejectedAt>>
    /\ UNCHANGED <<wsVars, genVars, now, splitVars>>

\* a catch that lets a failed warmup pass and goes on to the timed request
RejectWarmupTolerated ==
    /\ hpc \in {"warmupFetch", "warmupDrain", "timedFetch", "read"}
    /\ rejectedAt' = hpc
    /\ IF hpc \in {"warmupFetch", "warmupDrain"}
       THEN /\ startTimed
            /\ fetchCalls' = fetchCalls + 1
            /\ hpc' = "timedFetch"
            /\ hResult' = hResult
       ELSE /\ hpc' = "done"
            /\ hResult' = Null
            /\ UNCHANGED <<hStart, hTtfb, hTotal, fetchCalls>>
    /\ UNCHANGED <<warmupOk, warmupBody, respOk, body, buffer, lines, bodyAll>>
    /\ UNCHANGED <<wsVars, genVars, now, splitVars>>

\* a fetch, the warmup drain or a read rejects: the catch returns null
Reject ==
    /\ hpc \in {"warmupFetch", "warmupDrain", "timedFetch", "read"}
    /\ rejectedAt' = hpc
    /\ hpc' = "done"
    /\ hResult' = Null
    /\ UNCHANGED <<warmupOk, warmupBody, respOk, body, buffer, lines, hStart,
                   hTtfb, hTotal, bodyAll, fetchCalls>>
    /\ UNCHANGED <<wsVars, genVars, now, splitVars>>

\* ------------------------------------------------ synthesizeSpeechStream ----
InitGen ==
    /\ gpc = "fetch"
    /\ respOk \in BOOLEAN
    /\ bodyAll \in Bodies
    /\ body = bodyAll
    /\ buffer = <<>>
    /\ lines = <<>>
    /\ chunkCount = 0
    /\ totalAudioSize = 0
    /\ yielded = <<>>
    /\ audioData = <<>>
    /\ written = FALSE
    /\ fileData = <<>>
    /\ hpc = "idle" /\ warmupOk = TRUE /\ warmupBody = <<>>
    /\ hStart = NULL /\ hTtfb = NULL /\ hTotal = 0 /\ hResult = Pending
    /\ fetchCalls = 0 /\ rejectedAt = "none"

GenIdle ==
    /\ gpc = "idle" /\ chunkCount = 0 /\ totalAudioSize = 0 /\ yielded = <<>>
    /\ audioData = <<>> /\ written = FALSE /\ fileData = <<>>

\* the fetch resolves: a non-success status throws before anything is yielded
GenFetch ==
    /\ gpc = "fetch"
    /\ gpc' = IF respOk THEN "read" ELSE "thrown"
    /\ UNCHANGED <<chunkCount, totalAudioSize, yielded, audioData, written, fileData>>
    /\ UNCHANGED <<wsVars, httpVars, now, splitVars>>

\* reader.read() yields the next k characters: lines 97-101
GenReadChunk ==
    /\ gpc = "read"
    /\ body # <<>>
    /\ \E k \in 1..Len(body) :
         LET parts == split(buffer \o SubSeq(body, 1, k)) IN
         /\ body' = SubSeq(body, k + 1, Len(body))
         /\ lines' = SubSeq(parts, 1, Len(parts) - 1)
         /\ buffer' = parts[Len(parts)]
         /\ gpc' = IF Len(parts) > 1 THEN "line" ELSE "read"
    /\ UNCHANGED <<chunkCount, totalAudioSize, yielded, audioData, written, fileData>>
    /\ UNCHANGED <<hpc, warmupOk, warmupBody, respOk, hStart, hTtfb, hTotal, hResult, bodyAll,
                   fetchCalls, rejectedAt>>
    /\ UNCHANGED <<wsVars, now, splitVars>>

\* Buffer.from(audioContent, 'base64'): n bytes, each written here as n, so
\* that buffers of different records differ
bufferOf(n) == [i \in 1..n |-> n]

\* Buffer.concat(list), list holding the lengths of the buffers
RECURSIVE bufferConcat(_)
bufferConcat(list) ==
    IF list = <<>> THEN <<>>
    ELSE bufferOf(Head(list)) \o bufferConcat(Tail(list))

\* the body of the consumer's for await loop, run at each yield
push(chunk) == audioData' = Append(audioData, chunk)

\* a generator loop whose catch rethrows
genLineRethrow(line) ==
    IF trim(line) # <<>> /\ audioContentOf(line) = NULL
    THEN /\ gpc' = "thrown"
         /\ UNCHANGED <<chunkCount, totalAudioSize, yielded, audioData>>
    ELSE IF trim(line) # <<>> /\ audioContentOf(line) > 0
    THEN /\ chunkCount' = chunkCount + 1
         /\ totalAudioSize' = totalAudioSize + base64Length(audioContentOf(line))
         /\ yielded' = Append(yielded, base64Length(audioContentOf(line)))
         /\ push(base64Length(audioContentOf(line)))
         /\ gpc' = IF Tail(lines) = <<>> THEN "read" ELSE "line"
    ELSE /\ UNCHANGED <<chunkCount, totalAudioSize, yielded, audioData>>
         /\ gpc' = IF Tail(lines) = <<>> THEN "read" ELSE "line"

\* lines 104-131: one line of the for loop; an audio record is yielded, and
\* the consumer pushes it before the generator resumes
genLine(line) ==
    /\ IF trim(line) # <<>> /\ audioContentOf(line) # NULL /\ audioContentOf(line) > 0
       THEN /\ chunkCount' = chunkCount + 1
            /\ totalAudioSize' = totalAudioSize + base64Length(audioContentOf(line))
            /\ yielded' = Append(yielded, base64Length(audioContentOf(line)))
            /\ push(base64Length(audioContentOf(line)))
       ELSE UNCHANGED <<chunkCount, totalAudioSize, yielded, audioData>>
    /\ gpc' = IF Tail(lines) = <<>> THEN "read" ELSE "line"

GenNextLine ==
    /\ gpc = "line"
    /\ genLine(Head(lines))
    /\ lines' = Tail(lines)
    /\ UNCHANGED <<written, fileData>>
    /\ UNCHANGED <<hpc, warmupOk, warmupBody, respOk, body, buffer, hStart, hTtfb,
                   hTotal, hResult, bodyAll, fetchCalls, rejectedAt>>
    /\ UNCHANGED <<wsVars, now, splitVars>>

\* fs.writeFileSync(outputFile, Buffer.concat(audioData))
writeFileSync ==
    /\ written' = TRUE
    /\ fileData' = bufferConcat(audioData)

\* a consumer whose catch saves what it has
GenRejectSavesPartial ==
    /\ gpc \in {"fetch", "read"}
    /\ gpc' = "thrown"
    /\ writeFileSync
    /\ UNCHANGED <<chunkCount, totalAudioSize, yielded, audioData>>
    /\ UNCHANGED <<wsVars, httpVars, now, splitVars>>

\* reader.read() reports done: the generator returns, the consumer's loop
\* ends and the file is written
GenEndOfStream ==
    /\ gpc = "read"
    /\ body = <<>>
    /\ gpc' = "done"
    /\ writeFileSync
    /\ UNCHANGED <<chunkCount, totalAudioSize, yielded, audioData>>
    /\ UNCHANGED <<wsVars, httpVars, now, splitVars>>

\* the fetch or a read rejects: the catch logs and rethrows
GenReject ==
    /\ gpc \in {"fetch", "read"}
    /\ gpc' = "thrown"
    /\ UNCHANGED <<chunkCount, totalAudioSize, yielded, audioData, written, fileData>>
    /\ UNCHANGED <<wsVars, httpVars, now, splitVars>>

\* ------------------------------------------------------ splitSentences ----
\* one call: the array returned for the argument
CallSplit ==
    /\ spc = "call"
    /\ sOut' = splitSentences(sIn)
    /\ spc' = "done"
    /\ UNCHANGED sIn
    /\ UNCHANGED <<wsVars, httpVars, genVars, now>>

\* ------------------------------------------------------ specifications ----
InitWsSession == InitWs /\ HttpIdle /\ GenIdle /\ SplitIdle /\ now = 0

NextWs ==
    \/ Open
    \/ \E m \in Envelopes : Message(m)
    \/ Error
    \/ Close
    \/ Tick

SpecWs == InitWsSession /\ [][NextWs]_vars

\* a session whose events pass through the event loop, which dispatches
\* every pending event in the end
NextWsQueued ==
    \/ Open
    \/ \E e \in Events : Arrive(e)
    \/ Deliver

SpecWsFair == InitWsSession /\ [][NextWsQueued]_vars /\ WF_vars(Deliver)

WsIdle ==
    /\ text = <<>> /\ sock = "idle"
    /\ contextReady = FALSE /\ startTime = NULL /\ ttfb = NULL
    /\ totalAudioBytes = 0 /\ resolved = FALSE /\ result = Pending
    /\ closeCalls = 0 /\ resolveCalls = 0 /\ sent = <<>> /\ nEvents = 0
    /\ completionSeen = FALSE /\ abortFirst = FALSE
    /\ rcvdAudio = 0 /\ streamAudio = 0 /\ malformedSeen = FALSE
    /\ pending = <<>>

InitHttpSession == InitHttp /\ WsIdle /\ GenIdle /\ SplitIdle /\ now = 0

NextHttp ==
    \/ WarmupFetch
    \/ WarmupDrain
    \/ TimedFetch
    \/ ReadChunk
    \/ NextLine
    \/ EndOfStream
    \/ Reject
    \/ Tick

SpecHttp == InitHttpSession /\ [][NextHttp]_vars

InitGenSession == InitGen /\ WsIdle /\ SplitIdle /\ now = 0

NextGen ==
    \/ GenFetch
    \/ GenReadChunk
    \/ GenNextLine
    \/ GenEndOfStream
    \/ GenReject

InitSplitCall == InitSplit /\ WsIdle /\ HttpIdle /\ GenIdle /\ now = 0

NextSplit == CallSplit

SpecSplit == InitSplitCall /\ [][NextSplit]_vars

\* one call of either HTTP client
SpecHttpClients ==
    (InitHttpSession \/ InitGenSession) /\ [][NextHttp \/ NextGen]_vars

\* ------------------------------------------------- websocketTts: claims ----
\* a step in which ws.on('message') handles the frame m
MessageStep(m) == Message(m)

\* connection open, acknowledgment not yet received, session not finished
AwaitingContextReady == sock = "open" /\ ~contextReady /\ ~resolved

\* C1: when 'close' or 'error' is handled before any completion signal (a
\* contextClosed or no-result done envelope arriving after the acknowledgment),
\* the session is resolved with null, whatever audio had been received, and a
\* later completion signal does not turn that into metrics.
C1_AbortYieldsNull == abortFirst => (resolved /\ result = Null)

\* C1 witness: the connection closed after audio was counted; the result is null
C1_Witness ==
    /\ abortFirst /\ sock = "closed" /\ result = Null
    /\ contextReady /\ totalAudioBytes > 0 /\ ttfb # NULL

\* C4 as stated: the metrics' audioBytes is the decoded length of every audio
\* chunk received on the connection up to and including the completion message.
C4_AllReceivedAudioCounted ==
    result.kind = "metrics" => result.audioBytes = rcvdAudio

\* C4 amended: the metrics' audioBytes is the decoded length of the audio chunks
\* received after the acknowledgment in envelopes carrying neither an error
\* nor contextClosed, up to the completion message.
C4_StreamingAudioCounted ==
    result.kind = "metrics" => result.audioBytes = streamAudio

\* C4 witness: metrics over two chunks of different sizes, with a chunk that
\* arrived before the acknowledgment left out
C4_Witness ==
    /\ result.kind = "metrics" /\ result.audioBytes = 4
    /\ rcvdAudio > streamAudio

\* C8: finish takes effect at most once: ws.close() and resolve() are each
\* called once by the step that finishes the session and never again, and once
\* the session is resolved no event changes the result.
C8_FinishOnce ==
    [][ /\ closeCalls' <= 1 /\ resolveCalls' <= 1
        /\ resolved' => (closeCalls' = 1 /\ resolveCalls' = 1 /\ result'.kind # "pending")
        /\ ~resolved' => (closeCalls' = 0 /\ resolveCalls' = 0 /\ result' = Pending)
        /\ resolved => (resolved' /\ result' = result) ]_vars

\* C8 witness: a session resolved with metrics that handled 'close' afterwards
C8_Witness ==
    /\ resolved /\ result.kind = "metrics" /\ sock = "closed" /\ closeCalls = 1

\* C9 as stated: in AwaitingContextReady every frame other than the
\* acknowledgment leaves the session as it was.
C9_NonAckIgnored ==
    [][ (AwaitingContextReady /\ nEvents' # nEvents) =>
        \A m \in Envelopes :
          (~IsAck(m) /\ MessageStep(m))
          => UNCHANGED <<contextReady, startTime, ttfb, totalAudioBytes,
                         resolved, result, closeCalls, resolveCalls, sent>> ]_vars

\* C9 amended: in AwaitingContextReady every frame that carries no error field
\* and is not the acknowledgment leaves the session as it was: not resolved,
\* socket not closed, contextReady, epoch, ttfb, byte total and the messages
\* sent all unchanged.
C9_NonAckNonErrorIgnored ==
    [][ (AwaitingContextReady /\ nEvents' # nEvents) =>
        \A m \in Envelopes :
          (~IsAck(m) /\ ~m.error /\ MessageStep(m))
          => UNCHANGED <<contextReady, startTime, ttfb, totalAudioBytes,
                         resolved, result, closeCalls, resolveCalls, sent>> ]_vars

\* C9 witness: still waiting for the acknowledgment after audio and other
\* frames were received and dropped
C9_Witness ==
    /\ AwaitingContextReady /\ nEvents >= 2 /\ rcvdAudio > 0
    /\ totalAudioBytes = 0 /\ ttfb = NULL /\ startTime = NULL
    /\ sent = <<CreateMsg>>

\* C10: once the session is resolved, no inbound frame makes the handler send
\* anything, and none changes the result.
C10_ClosedIgnoresTraffic ==
    [][ (resolved /\ nEvents' # nEvents) =>
        \A m \in Envelopes :
          MessageStep(m) => (sent' = sent /\ result' = result) ]_vars

\* ------------------------------------------------ HTTP clients: claims ----
\* every segment of the body between newlines, the unterminated last one included
allRecords(b) == split(b)

\* C2: a session that returns metrics (here after a successful warmup) has
\* ttfb = null only if the response held no audio-bearing record, and
\* otherwise 0 <= ttfb <= totalTime.
C2_TtfbNullOnlyWithoutAudio ==
    (hResult.kind = "metrics" /\ warmupOk) =>
        /\ hResult.ttfb = NULL => audioLines(allRecords(bodyAll)) = <<>>
        /\ hResult.ttfb # NULL => (0 <= hResult.ttfb /\ hResult.ttfb <= hResult.totalTime)

\* C3: the returned audioBytes is the decoded length of every audio-bearing
\* record of the body, a last record without a newline included, however the
\* body was divided into chunks (here after a successful warmup).
C3_EveryRecordCounted ==
    (hResult.kind = "metrics" /\ warmupOk) => hResult.audioBytes = sumBytes(allRecords(bodyAll))

\* C5: a non-success status on the warmup or on the timed exchange makes the
\* call return null.
C5_NonSuccessStatusFails ==
    (hpc = "done" /\ (~warmupOk \/ ~respOk)) => hResult = Null

\* C6: whatever the warmup response held, the returned audioBytes and ttfb are
\* those of the timed response's lines alone.
C6_WarmupExcluded ==
    hResult.kind = "metrics" =>
        /\ hResult.audioBytes = sumBytes(completeLines(bodyAll))
        /\ hResult.ttfb = NULL <=> audioLines(completeLines(bodyAll)) = <<>>
        /\ hResult.ttfb # NULL => (0 <= hResult.ttfb /\ hResult.ttfb <= now - hStart)

\* C6 witness: the warmup response held audio and the timed response other audio
C6_Witness ==
    /\ hResult.kind = "metrics" /\ hResult.audioBytes = 3
    /\ sumBytes(completeLines(warmupBody)) = 2

\* the line the for loop is at cannot be parsed or holds no audio content
AtSkippedLine(pc) ==
    pc = "line" /\ ~IsAudioLine(Head(lines))

\* C7: in both HTTP clients a complete line that does not parse, or parses
\* without audio content, is skipped: the call does not fail, ttfb, the byte
\* total and the yielded buffers are unchanged, and the loop goes on with the
\* next line; so the total is that of the body with those lines removed.
C7_BadLineSkipped ==
    /\ [](/\ (hResult.kind = "metrics") =>
                (hResult.audioBytes = sumBytes(audioLines(completeLines(bodyAll))))
          /\ (gpc = "done") =>
                (totalAudioSize = sumBytes(audioLines(completeLines(bodyAll)))))
    /\ [][ /\ (AtSkippedLine(hpc) /\ lines' # lines) =>
                (/\ hTtfb' = hTtfb /\ hTotal' = hTotal /\ hResult' = Pending
                 /\ lines' = Tail(lines)
                 /\ hpc' = IF lines' = <<>> THEN "read" ELSE "line")
           /\ (AtSkippedLine(gpc) /\ lines' # lines) =>
                (/\ chunkCount' = chunkCount /\ totalAudioSize' = totalAudioSize
                 /\ yielded' = yielded
                 /\ lines' = Tail(lines)
                 /\ gpc' = IF lines' = <<>> THEN "read" ELSE "line") ]_vars

\* C7 witness: audio, a malformed line, audio: both audio lines are counted
C7_Witness ==
    /\ hResult.kind = "metrics" /\ hResult.audioBytes = 3
    /\ Len(completeLines(bodyAll)) = 3
    /\ IsAudioLine(completeLines(bodyAll)[1])
    /\ audioContentOf(completeLines(bodyAll)[2]) = NULL
    /\ IsAudioLine(completeLines(bodyAll)[3])

\* ------------------------------------------------ splitSentences: claims ----
NoTerminator(t) == \A i \in 1..Len(t) : t[i] \notin Terminators

\* C11 as stated: a text with no terminator character yields exactly one
\* fragment, the trimmed text.
C11_OneFragment ==
    (spc = "done" /\ NoTerminator(sIn)) => sOut = <<trim(sIn)>>

\* C11 amended: a text with no terminator character and at least one
\* character that is not white space yields exactly one fragment, the trimmed
\* text; an empty or all-blank text yields no fragment.
C11_OneFragmentUnlessBlank ==
    (spc = "done" /\ NoTerminator(sIn)) =>
        sOut = IF trim(sIn) = <<>> THEN <<>> ELSE <<trim(sIn)>>

\* C11 witness: a text with blanks around and inside, returned trimmed
C11_Witness ==
    /\ spc = "done" /\ sIn = <<" ", "a", " ", "a", " ">>
    /\ sOut = << <<"a", " ", "a">> >>

\* the text ends with a terminator, white space aside (or holds nothing else)
NoTrailingFragment(t) ==
    trim(t) = <<>> \/ trim(t)[Len(trim(t))] \in Terminators

\* the clauses of a text: its maximal runs of terminators, each closing one
ClauseCount(t) ==
    Cardinality({ i \in 1..Len(t) :
                    t[i] \in Terminators /\ (i = Len(t) \/ t[i + 1] \notin Terminators) })

withoutSpace(t) == SelectSeq(t, LAMBDA c : c \notin Whitespace)

RECURSIVE concat(_)
concat(ss) == IF ss = <<>> THEN <<>> ELSE Head(ss) \o concat(Tail(ss))

\* C12: a text of N terminator-delimited clauses with nothing after the last
\* terminator yields exactly N fragments, in the order of the text, each
\* non-empty, trimmed and closed by its terminators.
C12_OneFragmentPerClause ==
    (spc = "done" /\ NoTrailingFragment(sIn)) =>
        /\ Len(sOut) = ClauseCount(sIn)
        /\ \A k \in 1..Len(sOut) :
              /\ sOut[k] # <<>>
              /\ sOut[k][1] \notin Whitespace
              /\ sOut[k][Len(sOut[k])] \in Terminators
        /\ withoutSpace(concat(sOut)) = withoutSpace(sIn)

\* C12 witness: two clauses, the second closed by two terminators
C12_Witness ==
    /\ spc = "done" /\ sIn = <<"a", ".", " ", "?", "U+3002">>
    /\ sOut = << <<"a", ".">>, <<"?", "U+3002">> >>

\* -------------------------------------- websocketTts: claims (continued) ----
\* what a session sends once acknowledged: create, one flushed send_text per
\* fragment of the text in order, close_context
FullExchange ==
    <<CreateMsg>>
    \o [i \in 1..Len(splitSentences(text)) |->
          [kind |-> "send_text", context_id |-> contextId,
           text |-> splitSentences(text)[i], flush_context |-> TRUE]]
    \o <<CloseContextMsg>>

\* C13: the outbound messages are: nothing before 'open'; the create message
\* alone from 'open' until the acknowledgment; from the first acknowledgment on,
\* create, one send_text with flush_context per fragment in fragment order,
\* then one close_context (also for a text without fragments); a frame handled
\* after the acknowledgment, a repeated acknowledgment included, sends nothing;
\* every message carries the same context_id.
C13_OutboundOrder ==
    /\ [](/\ sent = IF contextReady THEN FullExchange
                    ELSE IF sock = "open" THEN <<CreateMsg>>
                    ELSE IF sock = "connecting" THEN <<>>
                    ELSE sent
          /\ sent \in {<<>>, <<CreateMsg>>, FullExchange}
          /\ \A i \in 1..Len(sent) : sent[i].context_id = contextId)
    /\ [][ (contextReady /\ nEvents' # nEvents) => sent' = sent ]_vars

\* C13 witness: two fragments sent in order and the context closed, with
\* further frames handled since
C13_Witness ==
    /\ contextReady /\ ~resolved /\ nEvents >= 3
    /\ Len(sent) = 4
    /\ sent[2].kind = "send_text" /\ sent[2].text = <<"a", ".">>
    /\ sent[3].kind = "send_text" /\ sent[3].text = <<"b", "?", "!">>
    /\ sent[4].kind = "close_context"

\* C14: metrics are produced only by a completion signal (contextClosed, or
\* done without a result) handled after the acknowledgment; either signal
\* resolves an unresolved session with ttfb and audioBytes as accumulated and
\* totalTime = now - epoch; before the acknowledgment no frame produces
\* metrics, so totalTime is never computed from an unset epoch.
C14_MetricsOnlyOnCompletion ==
    /\ [](result.kind = "metrics" =>
            /\ contextReady /\ completionSeen /\ startTime # NULL
            /\ result.totalTime >= 0)
    /\ [][ (~resolved /\ nEvents' # nEvents) =>
           \A m \in Envelopes :
             MessageStep(m) =>
               IF contextReady /\ ~m.error /\ IsCompletion(m)
               THEN result' = [kind |-> "metrics", ttfb |-> ttfb,
                               totalTime |-> now - startTime,
                               audioBytes |-> totalAudioBytes]
               ELSE result'.kind # "metrics" ]_vars

\* C14 witness: acknowledged after the clock had advanced, resolved later with
\* metrics measured from the acknowledgment
C14_Witness ==
    /\ result.kind = "metrics" /\ startTime = 1 /\ now = 2
    /\ result.totalTime = 1 /\ result.ttfb = 0 /\ result.audioBytes > 0

\* connection open, acknowledged, session not finished
Streaming == sock = "open" /\ contextReady /\ ~resolved

\* C15: an error envelope handled in Streaming resolves the session with null
\* and closes the connection, whatever audio was counted and whether or not
\* ttfb was recorded; a null result is never replaced, so no later
\* contextClosed or done envelope produces metrics.
C15_ErrorEnvelopeFails ==
    /\ [][ (Streaming /\ nEvents' # nEvents) =>
           \A m \in Envelopes :
             (m.json /\ m.error /\ MessageStep(m)) =>
               /\ resolved' /\ result' = Null
               /\ closeCalls' = closeCalls + 1
               /\ ttfb' = ttfb /\ totalAudioBytes' = totalAudioBytes ]_vars
    /\ [][ result = Null => result' = Null ]_vars

\* C15 witness: failed by an error envelope (no 'close' or 'error' event came
\* first) after audio was counted, and a completion signal arrived as well
C15_Witness ==
    /\ result = Null /\ ~abortFirst /\ sock = "open" /\ closeCalls = 1
    /\ ttfb # NULL /\ totalAudioBytes > 0 /\ completionSeen

\* a frame that is not JSON, or JSON without any field the handler reads
NotAnEnvelope(m) == ~m.json \/ (~m.error /\ ~m.result /\ ~m.done)

\* C16: a frame that is not JSON, or not an envelope, is skipped in every
\* state: contextReady, the epoch, ttfb, the byte total, the resolved flag and
\* the result are unchanged, the socket is not closed and nothing is sent; the
\* handler's state being the same, the next frame is handled as without it.
C16_MalformedSkipped ==
    [][ nEvents' # nEvents =>
        \A m \in Envelopes :
          (NotAnEnvelope(m) /\ MessageStep(m)) =>
            UNCHANGED <<contextReady, startTime, ttfb, totalAudioBytes, resolved,
                        result, closeCalls, resolveCalls, sent>> ]_vars

\* C16 witness: a session that handled a frame that is not JSON while
\* streaming and later resolved with metrics over the audio on both sides
C16_Witness ==
    /\ malformedSeen /\ result.kind = "metrics" /\ result.audioBytes = 4
    /\ nEvents = 5 /\ rcvdAudio = streamAudio

\* ---------------------------------------------- httpStreamingTts: order ----
WarmupSteps == {"warmupFetch", "warmupDrain"}

\* C17: a transport failure -- the warmup fetch, the warmup drain, the timed
\* fetch or a read rejecting -- ends the call at once with null, keeping
\* nothing of the audio counted or the ttfb set before it; after a failure in
\* the warmup the timed request is never issued, and no request is repeated.
C17_TransportFailureAborts ==
    /\ [](rejectedAt # "none" =>
            /\ hpc = "done" /\ hResult = Null
            /\ (rejectedAt \in WarmupSteps => fetchCalls = 1 /\ hStart = NULL)
            /\ fetchCalls <= 2)
    /\ [][ rejectedAt' # rejectedAt =>
             /\ rejectedAt = "none" /\ rejectedAt' = hpc
             /\ hpc \in {"warmupFetch", "warmupDrain", "timedFetch", "read"} ]_vars
    /\ [][ hpc = "done" => UNCHANGED httpVars ]_vars

\* C17 witness: a read rejected after audio was counted and ttfb was set
C17_Witness ==
    /\ rejectedAt = "read" /\ hResult = Null
    /\ hTtfb # NULL /\ hTotal > 0 /\ body # <<>>

\* C18: the steps of httpStreamingTts are strictly ordered: the clock is not
\* started before the warmup body is drained, it is started in the step that
\* issues the timed request, and totalTime is read from the clock only when
\* the timed stream has reported its end.
C18_StepsOrdered ==
    /\ [](/\ (hpc \in WarmupSteps => hStart = NULL /\ fetchCalls = 1)
          /\ (fetchCalls = 2 => hStart # NULL /\ hStart <= now)
          /\ (hResult.kind = "metrics" => hpc = "done" /\ body = <<>>))
    /\ [][ hStart' # hStart =>
             /\ hpc = "warmupDrain" /\ hStart = NULL /\ hStart' = now
             /\ fetchCalls = 1 /\ fetchCalls' = 2 ]_vars
    /\ [][ fetchCalls' # fetchCalls => hpc = "warmupDrain" /\ hStart' = now ]_vars
    /\ [][ hResult'.kind = "metrics" /\ hResult.kind # "metrics" =>
             /\ hpc = "read" /\ body = <<>>
             /\ hResult'.totalTime = now - hStart ]_vars

\* C18 witness: the clock started at 1 after the warmup, and the stream ended
\* at 2 with audio counted
C18_Witness ==
    /\ hResult.kind = "metrics" /\ hStart = 1 /\ hResult.totalTime = 1
    /\ hResult.audioBytes > 0 /\ fetchCalls = 2 /\ warmupBody # <<>>

\* ------------------------------------------------------- both sessions ----
\* one session of either low-latency client
InitSession == InitWsSession \/ InitHttpSession

SpecSessions == InitSession /\ [][NextWs \/ NextHttp]_vars

\* C19: in the websocket session and in the HTTP session alike, ttfb is
\* assigned at most once -- once it is not null no step changes it -- and
\* the byte total never decreases from one step to the next.
C19_TtfbOnceTotalMonotone ==
    [][ /\ (ttfb # NULL => ttfb' = ttfb)
        /\ totalAudioBytes' >= totalAudioBytes
        /\ (hTtfb # NULL => hTtfb' = hTtfb)
        /\ hTotal' >= hTotal ]_vars

\* C19 witness: an HTTP session whose two audio lines were counted, the first
\* at clock 0 and the stream ending at clock 2
C19_Witness ==
    /\ hResult.kind = "metrics" /\ hResult.ttfb = 0 /\ hResult.totalTime = 2
    /\ hResult.audioBytes = 3 /\ Len(audioLines(completeLines(bodyAll))) = 2

\* ------------------------------------------------ synthesizeSpeechStream ----
\* the decoded lengths of the audio-bearing records among ls, in order
RECURSIVE lengthsOf(_)
lengthsOf(ls) ==
    IF ls = <<>> THEN <<>>
    ELSE (IF IsAudioLine(Head(ls))
          THEN <<base64Length(audioContentOf(Head(ls)))>> ELSE <<>>)
         \o lengthsOf(Tail(ls))

\* C20: synthesizeSpeechStream yields exactly one buffer for each
\* audio-bearing record of the response stream, in stream order, and nothing
\* once the stream has ended; on a non-success status it throws before
\* yielding; saveStreamingAudioToFile writes the file only when the sequence
\* ended without error, and writes the buffers concatenated in yield order.
C20_OneBufferPerRecord ==
    /\ (gpc = "done" => yielded = lengthsOf(allRecords(bodyAll)))
    /\ (gpc \in {"fetch", "read", "line"} =>
          \E n \in 0..Len(lengthsOf(allRecords(bodyAll))) :
             yielded = SubSeq(lengthsOf(allRecords(bodyAll)), 1, n))
    /\ (gpc = "thrown" /\ ~respOk => yielded = <<>>)
    /\ (written <=> gpc = "done")
    /\ (written => fileData = bufferConcat(yielded))

\* --------------------------------------------- websocketTts: liveness ----
\* the event e ends the session when the handler runs for it with the
\* acknowledgment received or not (ready)
IsExit(e, ready) ==
    \/ e.kind \in {"error", "close"}
    \/ /\ e.kind = "message"
       /\ e.m.json
       /\ e.m.error \/ (ready /\ IsCompletion(e.m))

\* the acknowledgment will have been handled when pending[i] is dispatched
ReadyAt(i) ==
    \/ contextReady
    \/ \E j \in 1..(i - 1) : pending[j].kind = "message" /\ IsAck(pending[j].m)

\* the connection has emitted an event that ends the session
ExitPending == \E i \in 1..Len(pending) : IsExit(pending[i], ReadyAt(i))

\* C21: with every pending event dispatched in the end, a session whose
\* connection has emitted a completion signal after the acknowledgment, an
\* error envelope, an 'error' event or a 'close' event resolves; whenever
\* the session is resolved ws.close() has been called; and the session
\* resolves only in the dispatch of one of these events, which calls
\* ws.close() in the same step (nothing else, no timer, resolves it).
C21_ExitEventResolves ==
    /\ ExitPending ~> resolved
    /\ [](resolved => closeCalls >= 1 /\ result.kind # "pending")
    /\ [][ (resolved' /\ ~resolved) =>
             /\ pending # <<>> /\ pending' = Tail(pending)
             /\ IsExit(Head(pending), contextReady)
             /\ closeCalls' = closeCalls + 1 ]_vars
    /\ [][ (pending # <<>> /\ pending' = Tail(pending)
            /\ IsExit(Head(pending), contextReady)) => resolved' ]_vars

\* C21 witness: a session resolved with metrics, ws.close() called, while the
\* connection's 'close' event is still waiting to be dispatched
C21_Witness ==
    /\ resolved /\ result.kind = "metrics" /\ result.audioBytes > 0
    /\ closeCalls = 1 /\ sock = "open"
    /\ pending = << [kind |-> "close"] >>

====
